---- MODULE Spec2Model ----
(***************************************************************************)
(* Control loop of fine_tune_tabpfn (finetuning_scripts/                   *)
(* finetune_tabpfn_main.py): baseline validation, the per-step loop with   *)
(* gradient accumulation, skip detection, validation cadence, best-model   *)
(* checkpointing, adaptive early stopping, the time forecast, the ledger   *)
(* of step results and the teardown report.                                *)
(*                                                                         *)
(* Time is counted in integer ticks; the factor 1.1 of the forecast is     *)
(* kept exact by comparing 10 * time_left * step_i with 11 * time_spent.   *)
(* Model parameters are abstracted to a small integer; the validation     *)
(* loss is a fixed function of the parameters.                             *)
(***************************************************************************)
EXTENDS Integers, Sequences, FiniteSets, TLC

\* ---------------------------------------------------------------- bounds
MaxSteps == 3
MaxParam == 2

\* ------------------------------------------------------- program constants
GrowthInterval == 100
InitScaleExp == 16
AdaptiveRateDen == 5
NonFiniteNorm == 1000

\* ------------------------------------------------------------ input sets
Params == 0..MaxParam
Durations == {5, 10}
BigTime == 100 * (MaxSteps + 1)
TimeLimits == {4, 21, 30, BigTime}
NoFile == 0 - 1

Configs ==
  [ update_every_n_steps : 1..2,
    validate_every_n_steps : 1..2,
    max_steps : {1, MaxSteps},
    time_limit : TimeLimits,
    use_grad_scaler : BOOLEAN,
    min_patience : 0..1,
    max_patience : {2},
    adaptive_offset : {0} ]

\* use_sklearn_interface_for_validation and model_for_validation
\* ("none": not supplied; "fitted": it has the attribute executor_)
ValidationArgs ==
  [ use_sklearn_interface_for_validation : BOOLEAN,
    model_for_validation : {"none", "unfitted", "fitted"} ]

DefaultValidationArgs ==
  [ use_sklearn_interface_for_validation |-> FALSE,
    model_for_validation |-> "none" ]

\* finetuning_config as the caller may pass it: nothing restricts the
\* values, so update_every_n_steps = 0 and min_patience > max_patience occur
AnyConfigs ==
  [ update_every_n_steps : 0..2,
    validate_every_n_steps : {1},
    max_steps : {1, 2},
    time_limit : {4, BigTime},
    use_grad_scaler : {FALSE},
    min_patience : {0, 3},
    max_patience : {2},
    adaptive_offset : {0} ]

VARIABLES
  pc,                      \* "start", "loop", "stopped", "done"
  cfg,                     \* finetuning_config + time_limit + device choice
  model,                   \* model parameters
  model_mode,              \* "train" / "eval" (model.train() / model.eval())
  grads,                   \* backward passes accumulated since zero_grad
  scaler,                  \* GradScaler: scale exponent and growth tracker
  adaptive_es,             \* AdaptiveES state
  best_validation_loss,
  step_results_over_time,  \* the ledger
  checkpoint,              \* state_dict in the file, NoFile before the first save
  step_i,                  \* index of the last executed step
  skipped_steps,
  early_stop_no_imp,
  early_stop_no_time,
  clock,                   \* time.time() - st_time
  loop_start,              \* clock when the loop was entered (history)
  report,                  \* what _tore_down_tuning reports
  val_args,                \* the validation arguments of the call
  error,                   \* the exception that ended the call, "none" if none
  optimizer_state,         \* number of optimizer steps applied
  log                      \* history of validations, es updates, saves, steps

vars == << pc, cfg, model, model_mode, grads, scaler, adaptive_es,
           best_validation_loss, step_results_over_time, checkpoint, step_i,
           skipped_steps, early_stop_no_imp, early_stop_no_time, clock,
           loop_start, report, val_args, error, optimizer_state, log >>

\* --------------------------------------------------------------- helpers
Min(a, b) == IF a < b THEN a ELSE b
Max(a, b) == IF a > b THEN a ELSE b
Last(s) == s[Len(s)]

Event(op, step, loss, round, flag, state, mode) ==
  [ op |-> op, step |-> step, loss |-> loss, round |-> round,
    flag |-> flag, state |-> state, mode |-> mode ]

\* validate_tabpfn(model): a deterministic function of the parameters;
\* parameters 1 and 2 tie, so strictness of the comparison is observable.
validate_tabpfn(m) == MaxParam + 1 - ((m + 1) \div 2)

\* loss of the seeded batch of step i under parameters m (never 0 here)
TrainingLoss(m, i) == 1 + ((m + i) % 2)

\* ------------------------------------------------------- AdaptiveES
Patience(c, cur_round) ==
  Min(c.max_patience,
      Max(c.min_patience, c.adaptive_offset + (cur_round \div AdaptiveRateDen)))

remaining_patience(c, cur_round) == Patience(c, cur_round)

es_update(c, es, cur_round, is_best) ==
  LET rsi == IF is_best THEN 0 ELSE es.rounds_since_improvement + 1
      st  == [ rounds_since_improvement |-> rsi,
               best_round |-> IF is_best THEN cur_round ELSE es.best_round,
               patience |-> Patience(c, cur_round) ]
  IN [ state |-> st, stop |-> rsi > Patience(c, cur_round) ]

InitES(c) ==
  [ rounds_since_improvement |-> 0, best_round |-> 0,
    patience |-> Patience(c, 0) ]

\* ------------------------------------------------------- GradScaler
get_scale(c, s) == IF c.use_grad_scaler THEN s.scale_exp ELSE 0

scaler_update(c, s, found_inf) ==
  IF ~c.use_grad_scaler THEN s
  ELSE IF found_inf
       THEN [ scale_exp |-> s.scale_exp - 1, growth_tracker |-> 0 ]
       ELSE IF s.growth_tracker + 1 = GrowthInterval
            THEN [ scale_exp |-> s.scale_exp + 1, growth_tracker |-> 0 ]
            ELSE [ scale_exp |-> s.scale_exp,
                   growth_tracker |-> s.growth_tracker + 1 ]

\* ------------------------------------------------------- _fine_tune_step
\* found_inf: the unscaled gradients hold an inf/NaN; new_model: the
\* parameters an applied optimizer step produces.
\* variant: a skipped update reports the sentinel
GradNorm_sentinel_on_skip(step_with_update, found_inf, g1) ==
  IF step_with_update /\ ~found_inf THEN g1 ELSE 0 - 1

\* l.616-624: -1 unless the update branch measured the norm
GradNorm(step_with_update, found_inf, g1) ==
  IF step_with_update
  THEN (IF found_inf THEN NonFiniteNorm ELSE g1)
  ELSE 0 - 1

\* variant: zero_grad only after an applied optimizer step
GradsAfter_keep_on_skip(step_with_update, skipped, g1) ==
  IF step_with_update /\ ~skipped THEN 0 ELSE g1

\* l.612, 633: backward adds to the gradients, the update branch zeroes them
GradsAfter(step_with_update, skipped, g1) ==
  IF step_with_update THEN 0 ELSE g1

\* variant: a step without update is reported as skipped
StepSkipped_on_accumulation(step_with_update, org_scale, new_scale) ==
  ~step_with_update \/ org_scale > new_scale

\* l.613, 625-628: False unless the update branch saw the scale shrink
StepSkipped(step_with_update, org_scale, new_scale) ==
  step_with_update /\ org_scale > new_scale

fine_tune_step(c, m, s, o, g, i, step_with_update, found_inf, new_model) ==
  LET g1 == g + 1
      s1 == IF step_with_update THEN scaler_update(c, s, found_inf) ELSE s
      skipped == StepSkipped(step_with_update, get_scale(c, s),
                             get_scale(c, s1))
      m1 == IF step_with_update /\ ~found_inf THEN new_model ELSE m
      o1 == IF step_with_update /\ ~found_inf THEN o + 1 ELSE o
      norm == GradNorm(step_with_update, found_inf, g1)
  IN [ model |-> m1,
       scaler |-> s1,
       optimizer_state |-> o1,
       grads |-> GradsAfter(step_with_update, skipped, g1),
       training_loss |-> TrainingLoss(m, i),
       step_with_update |-> step_with_update,
       optimizer_step_skipped |-> skipped,
       grad_norm_before_clip |-> norm ]

\* ------------------------------------------------------- loop decisions
\* variant: model.train() / optimizer.train() are not called in the loop
TrainMode_stale(mode) == mode

\* l.346-347: model.train(); optimizer.train()
TrainMode(mode) == "train"

\* l.277-278, 371-372: model.eval(); optimizer.eval()
EvalMode(mode) == "eval"

UpdateNow(c, i) == (i + 1) % c.update_every_n_steps = 0

\* variant: the cadence is taken from the step index itself
CadenceNow_plain_index(c, i) == i % c.validate_every_n_steps = 0

CadenceNow(c, i) == (i + 1) % c.validate_every_n_steps = 0

\* variant: the skip test is inverted
ValidateNow_inverted(cadence, skipped) == cadence /\ skipped

\* variant: the skip does not suppress the validation
ValidateNow_ignoring_skip(cadence, skipped) == cadence

ValidateNow(cadence, skipped) == cadence /\ ~skipped

\* variant: a tie counts as an improvement
IsBest_or_equal(validation_loss, best) == validation_loss <= best

IsBest(validation_loss, best) == validation_loss < best

CurRound(c, i, skipped) == (i - skipped) \div c.update_every_n_steps

\* variant: every validation overwrites the file with the latest state
SaveNow_latest(is_best) == TRUE

SaveNow(is_best) == is_best

\* variant: the skip counter is never advanced
SkippedAfter_never(skipped_steps_before, skipped) == skipped_steps_before

SkippedAfter(skipped_steps_before, skipped) ==
  IF skipped THEN skipped_steps_before + 1 ELSE skipped_steps_before

\* variant: the loop breaks before the record of the last step is appended
LedgerAfter_break_first(ledger, rec, stop) ==
  IF stop THEN ledger ELSE Append(ledger, rec)

LedgerAfter(ledger, rec, stop) == Append(ledger, rec)

\* get_data_loader: a finite sequence of max_steps batches
data_loader_len(c) == c.max_steps

\* variant: the baseline record is carried forward instead of the last one
CarriedLoss_first(ledger) == ledger[1].validation_loss

CarriedLoss(ledger) == Last(ledger).validation_loss

\* variant: the signal is not reset on a step without validation
NoImpAfter_any_step(validate_now, stop) == stop

NoImpAfter(validate_now, stop) == IF validate_now THEN stop ELSE FALSE

\* variant: the margin comparison is strict
TimeForecast_strict(time_limit, time_spent, i) ==
  LET time_left == time_limit - time_spent
  IN (time_left <= 0) \/ (10 * time_left * i < 11 * time_spent)

TimeForecast(time_limit, time_spent, i) ==
  LET time_left == time_limit - time_spent
  IN (time_left <= 0) \/ (10 * time_left * i <= 11 * time_spent)

\* variant: the time signal does not end the loop
BreakNow_no_imp_only(no_imp, no_time) == no_imp

BreakNow(no_imp, no_time) == no_imp \/ no_time

\* variant: the index-0 record is rewritten at every step
Backfill_every_step(ledger, i, training_loss) ==
  [ ledger EXCEPT ![1].training_loss = training_loss ]

Backfill(ledger, i, training_loss) ==
  IF i = 1 THEN [ ledger EXCEPT ![1].training_loss = training_loss ]
  ELSE ledger

\* ---------------------------------------------------------------- Init
InitState ==
  /\ pc = "start"
  /\ model \in Params
  /\ error = "none"
  /\ optimizer_state = 0
  /\ model_mode = "train"
  /\ grads = 0
  /\ scaler = [ scale_exp |-> InitScaleExp, growth_tracker |-> 0 ]
  /\ best_validation_loss = 0
  /\ step_results_over_time = << >>
  /\ checkpoint = NoFile
  /\ step_i = 0
  /\ skipped_steps = 0
  /\ early_stop_no_imp = FALSE
  /\ early_stop_no_time = FALSE
  /\ clock = 0
  /\ loop_start = 0
  /\ report = [ es_reason |-> "unset", best_step |-> 0 - 1,
                best_validation_loss |-> 0 - 1, total_steps |-> 0 ]
  /\ log = << >>

Init ==
  /\ cfg \in Configs
  /\ val_args = DefaultValidationArgs
  /\ adaptive_es = InitES(cfg)
  /\ InitState

\* the call with any finetuning_config and any validation arguments
InitAnyArgs ==
  /\ cfg \in AnyConfigs
  /\ val_args \in ValidationArgs
  /\ adaptive_es = InitES(cfg)
  /\ InitState

\* variant: the fitted model is never rejected
SetupRejects_never(a) == FALSE

\* l.252-255: a fitted model_for_validation raises ValueError
SetupRejects(a) ==
  a.use_sklearn_interface_for_validation /\ a.model_for_validation = "fitted"

\* ------------------------------------------------- setup (INIT), l.134-340
Setup(dur) ==
  /\ pc = "start"
  /\ ~SetupRejects(val_args)
  /\ LET loss == validate_tabpfn(model)
         es   == es_update(cfg, adaptive_es, 0, TRUE)
         mode == EvalMode(model_mode)
     IN /\ model_mode' = mode
        /\ best_validation_loss' = loss
        /\ adaptive_es' = es.state
        /\ step_results_over_time' =
             << [ step_index |-> 0,
                  best_validation_loss |-> loss,
                  training_loss |-> 0,
                  validation_loss |-> loss,
                  patience_left |-> remaining_patience(cfg, 0),
                  time_left |-> cfg.time_limit,
                  step_with_update |-> FALSE,
                  optimizer_step_skipped |-> FALSE,
                  grad_norm_before_clip |-> 0 - 1 ] >>
        /\ checkpoint' = model
        /\ log' = << Event("validate", 0, loss, 0, FALSE, model, mode),
                     Event("es_update", 0, loss, 0, TRUE, model, mode),
                     Event("save", 0, loss, 0, TRUE, model, mode) >>
  /\ grads' = 0
  /\ skipped_steps' = 0
  /\ early_stop_no_imp' = FALSE
  /\ early_stop_no_time' = FALSE
  /\ clock' = clock + dur
  /\ loop_start' = clock + dur
  /\ pc' = "loop"
  /\ UNCHANGED << cfg, model, scaler, step_i, report, val_args, error,
                  optimizer_state >>

\* setup ended by the ValueError of l.255, before the baseline validation
SetupRejected ==
  /\ pc = "start"
  /\ SetupRejects(val_args)
  /\ pc' = "error"
  /\ error' = "ValueError"
  /\ UNCHANGED << cfg, model, model_mode, grads, scaler, adaptive_es,
                  best_validation_loss, step_results_over_time, checkpoint,
                  step_i, skipped_steps, early_stop_no_imp,
                  early_stop_no_time, clock, loop_start, report, val_args,
                  optimizer_state, log >>

\* ------------------------------------------- one loop iteration, l.341-432
Step(dur, found_inf, new_model) ==
  /\ pc = "loop"
  /\ step_i < data_loader_len(cfg)
  /\ cfg.update_every_n_steps # 0
  /\ LET i            == step_i + 1
         update_now   == UpdateNow(cfg, i)
         train_mode   == TrainMode(model_mode)
         ft           == fine_tune_step(cfg, model, scaler, optimizer_state,
                                        grads, i, update_now, found_inf,
                                        new_model)
         skipped      == ft.optimizer_step_skipped
         validate_now == ValidateNow(CadenceNow(cfg, i), skipped)
         end_mode     == IF validate_now THEN EvalMode(train_mode)
                         ELSE train_mode
         skips        == SkippedAfter(skipped_steps, skipped)
         cur_round    == CurRound(cfg, i, skips)
         validation_loss == IF validate_now THEN validate_tabpfn(ft.model)
                            ELSE CarriedLoss(step_results_over_time)
         is_best      == validate_now
                         /\ IsBest(validation_loss, best_validation_loss)
         es           == es_update(cfg, adaptive_es, cur_round, is_best)
         no_imp       == NoImpAfter(validate_now, es.stop)
         best         == IF is_best THEN validation_loss
                         ELSE best_validation_loss
         time_spent   == clock + dur
         no_time      == TimeForecast(cfg.time_limit, time_spent, i)
         rec          == [ step_index |-> i,
                           best_validation_loss |-> best,
                           training_loss |-> ft.training_loss,
                           validation_loss |-> validation_loss,
                           patience_left |-> remaining_patience(cfg, cur_round),
                           time_left |-> cfg.time_limit - time_spent,
                           step_with_update |-> ft.step_with_update,
                           optimizer_step_skipped |-> skipped,
                           grad_norm_before_clip |-> ft.grad_norm_before_clip ]
         save_now     == validate_now /\ SaveNow(is_best)
         ckpt         == IF save_now THEN ft.model ELSE checkpoint
         stop         == BreakNow(no_imp, no_time)
         evs          == << Event("train", i, ft.training_loss, cur_round,
                                  update_now, model, train_mode) >>
                         \o (IF validate_now
                             THEN << Event("validate", i, validation_loss,
                                           cur_round, is_best, ft.model,
                                           end_mode),
                                     Event("es_update", i, validation_loss,
                                           cur_round, is_best, ft.model,
                                           end_mode) >>
                             ELSE << >>)
                         \o (IF save_now
                             THEN << Event("save", i, validation_loss,
                                           cur_round, is_best, ckpt,
                                           end_mode) >>
                             ELSE << >>)
     IN /\ (found_inf => update_now /\ cfg.use_grad_scaler)
        /\ (new_model # model => update_now /\ ~found_inf)
        /\ model' = ft.model
        /\ scaler' = ft.scaler
        /\ grads' = ft.grads
        /\ optimizer_state' = ft.optimizer_state
        /\ model_mode' = end_mode
        /\ skipped_steps' = skips
        /\ adaptive_es' = IF validate_now THEN es.state ELSE adaptive_es
        /\ best_validation_loss' = best
        /\ checkpoint' = ckpt
        /\ early_stop_no_imp' = no_imp
        /\ early_stop_no_time' = no_time
        /\ step_results_over_time' =
             Backfill(LedgerAfter(step_results_over_time, rec, stop), i,
                      ft.training_loss)
        /\ step_i' = i
        /\ clock' = time_spent
        /\ log' = log \o evs
        /\ pc' = IF stop \/ i = data_loader_len(cfg)
                 THEN "stopped" ELSE "loop"
  /\ UNCHANGED << cfg, loop_start, report, val_args, error >>

\* l.343: update_every_n_steps = 0 raises ZeroDivisionError in the first
\* iteration, before _fine_tune_step
StepZeroDivision ==
  /\ pc = "loop"
  /\ step_i < data_loader_len(cfg)
  /\ cfg.update_every_n_steps = 0
  /\ pc' = "error"
  /\ error' = "ZeroDivisionError"
  /\ UNCHANGED << cfg, model, model_mode, grads, scaler, adaptive_es,
                  best_validation_loss, step_results_over_time, checkpoint,
                  step_i, skipped_steps, early_stop_no_imp,
                  early_stop_no_time, clock, loop_start, report, val_args,
                  optimizer_state, log >>

\* ------------------------------------------- _tore_down_tuning, l.688-719
\* variant: the no-improvement reason wins over the no-time reason
EsReason_imp_first(no_imp, no_time) ==
  IF no_imp THEN "no_imp" ELSE IF no_time THEN "no_time" ELSE "none"

EsReason(no_imp, no_time) ==
  IF no_time THEN "no_time" ELSE IF no_imp THEN "no_imp" ELSE "none"

\* variant: the last of the minimal records
ArgMin_last(ledger) ==
  CHOOSE k \in 1..Len(ledger) :
    /\ \A j \in 1..Len(ledger) :
         ledger[k].validation_loss <= ledger[j].validation_loss
    /\ \A j \in (k + 1)..Len(ledger) :
         ledger[j].validation_loss > ledger[k].validation_loss

ArgMin(ledger) ==
  CHOOSE k \in 1..Len(ledger) :
    /\ \A j \in 1..Len(ledger) :
         ledger[k].validation_loss <= ledger[j].validation_loss
    /\ \A j \in 1..(k - 1) :
         ledger[j].validation_loss > ledger[k].validation_loss

TearDown ==
  /\ pc = "stopped"
  /\ report' = [ es_reason |-> EsReason(early_stop_no_imp, early_stop_no_time),
                 best_step |-> ArgMin(step_results_over_time) - 1,
                 best_validation_loss |->
                   Last(step_results_over_time).best_validation_loss,
                 total_steps |-> Len(step_results_over_time) ]
  /\ pc' = "done"
  /\ UNCHANGED << cfg, model, model_mode, grads, scaler, adaptive_es,
                  best_validation_loss, step_results_over_time, checkpoint,
                  step_i, skipped_steps, early_stop_no_imp,
                  early_stop_no_time, clock, loop_start, val_args, error,
                  optimizer_state, log >>

Next ==
  \/ \E dur \in Durations : Setup(dur)
  \/ \E dur \in Durations, found_inf \in BOOLEAN, new_model \in Params :
       Step(dur, found_inf, new_model)
  \/ TearDown

Spec == Init /\ [][Next]_vars

\* The loop is sequential code: each enabled step is eventually taken.
FairSpec == Spec /\ WF_vars(Next)

NextAnyArgs ==
  \/ \E dur \in Durations : Setup(dur)
  \/ SetupRejected
  \/ \E dur \in Durations, found_inf \in BOOLEAN, new_model \in Params :
       Step(dur, found_inf, new_model)
  \/ StepZeroDivision
  \/ TearDown

\* the call with unrestricted arguments
AnyArgsSpec == InitAnyArgs /\ [][NextAnyArgs]_vars

\* ======================================================================
\* Properties
\* ======================================================================
IsValidateEv(e) == e.op = "validate"
IsSaveEv(e) == e.op = "save"
IsEsEv(e) == e.op = "es_update"
IsTrainEv(e) == e.op = "train"

Validations == SelectSeq(log, IsValidateEv)
Saves == SelectSeq(log, IsSaveEv)
EsUpdates == SelectSeq(log, IsEsEv)
TrainSteps == SelectSeq(log, IsTrainEv)

AfterInit == pc \in {"loop", "stopped", "done"}
Stopped == pc \in {"stopped", "done"}

\* the validation that measured the current best loss: the first one whose
\* loss equals best_validation_loss
BestValidation ==
  Validations[CHOOSE k \in 1..Len(Validations) :
                /\ Validations[k].loss = best_validation_loss
                /\ \A j \in 1..(k - 1) :
                     Validations[j].loss # best_validation_loss]

\* C1: at every step boundary after INIT and at STOPPED the checkpoint file
\* holds the model state on which the current best validation loss was
\* measured; validating the persisted state again gives the best loss of the
\* last ledger record and of the final report.
C1_CheckpointIsBest ==
  AfterInit =>
    /\ checkpoint # NoFile
    /\ \E k \in 1..Len(Validations) :
         Validations[k].loss = best_validation_loss
    /\ checkpoint = BestValidation.state
    /\ validate_tabpfn(checkpoint) = best_validation_loss
    /\ validate_tabpfn(checkpoint)
         = Last(step_results_over_time).best_validation_loss
    /\ (pc = "done" =>
          report.best_validation_loss = validate_tabpfn(checkpoint))

\* C1 witness: a finished run whose file holds neither the baseline nor the
\* latest model state: a step improved and a later update made it worse.
C1_Witness ==
  /\ pc = "done"
  /\ checkpoint # model
  /\ BestValidation.step >= 1
  /\ validate_tabpfn(model) > validate_tabpfn(checkpoint)
  /\ Last(Validations).step > BestValidation.step

\* number of validations after the baseline whose loss is strictly smaller
\* than the loss of every earlier validation
Improvements ==
  Cardinality({ k \in 2..Len(Validations) :
                  \A j \in 1..(k - 1) :
                    Validations[k].loss < Validations[j].loss })

\* C2: the file is written once after the baseline validation and then only
\* at validating steps that strictly improve on the best-known loss: the
\* losses of successive writes strictly decrease and the number of writes is
\* 1 + the number of strictly improving validations.
C2_SavesStrictlyImprove ==
  AfterInit =>
    /\ Len(Saves) >= 1
    /\ Saves[1].step = 0
    /\ \A k \in 2..Len(Saves) :
         /\ Saves[k].step >= 1
         /\ Saves[k].loss < Saves[k - 1].loss
         /\ \E v \in 1..Len(Validations) :
              /\ Validations[v].step = Saves[k].step
              /\ Validations[v].loss = Saves[k].loss
              /\ \A j \in 1..(v - 1) :
                   Validations[v].loss < Validations[j].loss
    /\ Len(Saves) = 1 + Improvements

\* C2 witness: two writes after the baseline and a validation that tied with
\* the best-known loss and wrote nothing.
C2_Witness ==
  /\ Stopped
  /\ Len(Saves) = 2
  /\ \E v \in 2..Len(Validations) :
       /\ Validations[v].loss = Saves[2].loss
       /\ Validations[v].step > Saves[2].step
       /\ Validations[v].state # Saves[2].state

Validated(s) == \E v \in 1..Len(Validations) : Validations[v].step = s

\* the loss measured by the latest validation at a step below s
LastValidatedLoss(s) ==
  LET k == CHOOSE v \in 1..Len(Validations) :
             /\ Validations[v].step < s
             /\ \A w \in 1..Len(Validations) :
                  Validations[w].step < s =>
                    Validations[w].step <= Validations[v].step
  IN Validations[k].loss

\* C3: the record of a step that ran no validation carries the validation
\* loss of the most recent earlier validating step (of the baseline if none).
C3_CarryForward ==
  AfterInit =>
    \A k \in 2..Len(step_results_over_time) :
      LET r == step_results_over_time[k]
      IN ~Validated(r.step_index) =>
           r.validation_loss = LastValidatedLoss(r.step_index)

\* C3 witness: a non-validating step after a validating step whose loss
\* differs from the baseline loss.
C3_Witness ==
  /\ Len(step_results_over_time) >= 3
  /\ \E k \in 3..Len(step_results_over_time) :
       /\ ~Validated(k - 1)
       /\ Validated(k - 2)
       /\ step_results_over_time[k].validation_loss
            # step_results_over_time[1].validation_loss

\* the round number after step s as the loop computed it (0 before step 1)
RoundAfter(s) ==
  IF s = 0 THEN 0
  ELSE LET k == CHOOSE t \in 1..Len(TrainSteps) : TrainSteps[t].step = s
       IN TrainSteps[k].round

\* C4: a skipped step runs no validation, no early-stopping update and no
\* checkpoint write, and leaves the skip-adjusted round number where it was
\* after the previous step.
C4_SkippedStepIsInert ==
  AfterInit =>
    \A k \in 2..Len(step_results_over_time) :
      LET r == step_results_over_time[k]
      IN r.optimizer_step_skipped =>
           /\ \A e \in 1..Len(log) :
                log[e].step = r.step_index => log[e].op = "train"
           /\ RoundAfter(r.step_index) = RoundAfter(r.step_index - 1)
           /\ r.validation_loss = step_results_over_time[k - 1].validation_loss
           /\ r.best_validation_loss
                = step_results_over_time[k - 1].best_validation_loss

\* C4 witness: a skipped step at which the validation cadence was met, after
\* a step that advanced the round.
C4_Witness ==
  \E k \in 3..Len(step_results_over_time) :
    /\ step_results_over_time[k].optimizer_step_skipped
    /\ CadenceNow(cfg, k - 1)
    /\ RoundAfter(k - 2) >= 1

StepAny ==
  \E dur \in Durations, found_inf \in BOOLEAN, new_model \in Params :
    Step(dur, found_inf, new_model)

\* C5: the loop reaches STOPPED after at most max_steps steps; a further step
\* starts iff both stop signals are false and fewer than max_steps steps have
\* run; once a signal is true nothing more is validated, written or recorded.
C5_Termination ==
  /\ [](step_i <= cfg.max_steps)
  /\ [](pc # "start" =>
          ((ENABLED StepAny) <=>
             (/\ ~early_stop_no_imp
              /\ ~early_stop_no_time
              /\ step_i < cfg.max_steps)))
  /\ [][(early_stop_no_imp \/ early_stop_no_time) =>
          /\ step_i' = step_i
          /\ log' = log
          /\ checkpoint' = checkpoint
          /\ step_results_over_time' = step_results_over_time]_vars
  /\ <>(pc = "done")

\* C5 witness: a run stopped by the time signal before max_steps was reached.
C5_Witness ==
  /\ pc = "done"
  /\ early_stop_no_time
  /\ ~early_stop_no_imp
  /\ step_i >= 2
  /\ step_i < cfg.max_steps

\* the scenario of C6: one step, update and validation at every step, a time
\* limit the forecast never reaches, no skipped step
Scenario6 ==
  /\ cfg.max_steps = 1
  /\ cfg.update_every_n_steps = 1
  /\ cfg.validate_every_n_steps = 1
  /\ cfg.time_limit = BigTime
  /\ skipped_steps = 0

AppliedUpdates ==
  Cardinality({ k \in 2..Len(step_results_over_time) :
                  /\ step_results_over_time[k].step_with_update
                  /\ ~step_results_over_time[k].optimizer_step_skipped })

LoopValidations ==
  Cardinality({ v \in 1..Len(Validations) : Validations[v].step >= 1 })

Scenario6Run ==
  /\ step_i = 1
  /\ AppliedUpdates = 1
  /\ LoopValidations = 1
  /\ Len(step_results_over_time) = 2
  /\ step_results_over_time[1].step_index = 0
  /\ step_results_over_time[2].step_index = 1

\* C6 (as stated): in the scenario the run makes one update and one in-loop
\* validation, the ledger ends with records 0 and 1 and the loop ends at
\* max_steps with both stop signals false.
C6_Original ==
  (Stopped /\ Scenario6) =>
    /\ Scenario6Run
    /\ ~early_stop_no_imp
    /\ ~early_stop_no_time

\* C6 (amended): as stated, except that the no-improvement signal is false
\* only if the allowed patience at round 1 is at least 1 or the validation
\* improved; with patience 0 and no improvement the signal is true.
C6_OneStepRun ==
  (Stopped /\ Scenario6) =>
    /\ Scenario6Run
    /\ ~early_stop_no_time
    /\ (early_stop_no_imp <=>
          (Patience(cfg, 1) = 0 /\ Len(Saves) = 1))

\* C6 witness: the scenario finished with both signals false.
C6_Witness ==
  /\ pc = "done"
  /\ Scenario6
  /\ Scenario6Run
  /\ ~early_stop_no_imp
  /\ ~early_stop_no_time
  /\ report.es_reason = "none"

\* a time limit below the duration of any single training step
TinyTimeLimit == \A d \in Durations : cfg.time_limit < d

\* C7 (as stated): with a time limit below one step's duration the loop ends
\* after the baseline validation with no training step executed and the "no
\* time" reason reported.
C7_Original ==
  (Stopped /\ TinyTimeLimit) =>
    /\ step_i = 0
    /\ Len(step_results_over_time) = 1
    /\ (pc = "done" => report.es_reason = "no_time")

\* C7 (amended): with a time limit below one step's duration the loop ends
\* after exactly one training step (the first step starts without a time
\* check): the ledger holds records 0 and 1 and "no time" is reported.
C7_OneStepThenNoTime ==
  (Stopped /\ TinyTimeLimit) =>
    /\ step_i = 1
    /\ Len(TrainSteps) = 1
    /\ Len(step_results_over_time) = 2
    /\ early_stop_no_time
    /\ Last(step_results_over_time).time_left < 0
    /\ (pc = "done" => report.es_reason = "no_time")

\* C7 witness: such a run with more steps allowed, both signals raised.
C7_Witness ==
  /\ pc = "done"
  /\ TinyTimeLimit
  /\ cfg.max_steps >= 2
  /\ step_i = 1
  /\ early_stop_no_imp
  /\ report.es_reason = "no_time"

SkippedRecords ==
  { k \in 2..Len(step_results_over_time) :
      step_results_over_time[k].optimizer_step_skipped }

OneSkip == Cardinality(SkippedRecords) = 1

SkipStep == (CHOOSE k \in SkippedRecords : TRUE) - 1

\* C8 (as stated): with exactly one skipped step, for any steps-per-update,
\* the skipped step is not validated and every later validating step s passes
\* the round s // steps-per-update - 1 to the early-stopping update.
C8_Original ==
  (AfterInit /\ OneSkip) =>
    /\ ~Validated(SkipStep)
    /\ \A e \in 1..Len(EsUpdates) :
         EsUpdates[e].step > SkipStep =>
           EsUpdates[e].round
             = (EsUpdates[e].step \div cfg.update_every_n_steps) - 1

\* C8 (amended): the round passed at a later validating step s is
\* (s - 1) // steps-per-update: 1 less than s // steps-per-update when
\* steps-per-update = 1 or s is a multiple of it, equal to it otherwise.
C8_RoundAfterOneSkip ==
  (AfterInit /\ OneSkip) =>
    /\ ~Validated(SkipStep)
    /\ \A e \in 1..Len(EsUpdates) :
         LET s == EsUpdates[e].step
             n == cfg.update_every_n_steps
         IN s > SkipStep =>
              /\ EsUpdates[e].round = (s - 1) \div n
              /\ (s % n = 0 => EsUpdates[e].round = (s \div n) - 1)
              /\ (s % n # 0 => EsUpdates[e].round = s \div n)

\* C8 witness: steps-per-update 1, one skipped step at which the cadence was
\* met, and a validation at a later step.
C8_Witness ==
  /\ AfterInit
  /\ OneSkip
  /\ cfg.update_every_n_steps = 1
  /\ CadenceNow(cfg, SkipStep)
  /\ \E e \in 1..Len(EsUpdates) : EsUpdates[e].step > SkipStep

\* C9 (as stated): after each step the forecast signals stop exactly when the
\* remaining time is <= 0 or strictly below 1.1 times the average time of the
\* training steps alone.
C9_Original ==
  (AfterInit /\ step_i >= 1) =>
    LET time_left == Last(step_results_over_time).time_left
    IN early_stop_no_time <=>
         \/ time_left <= 0
         \/ 10 * time_left * step_i < 11 * (clock - loop_start)

\* C9 (amended): the forecast signals stop exactly when the remaining time is
\* <= 0 or at most 1.1 times (time since the start of fine_tune_tabpfn,
\* setup and baseline validation included, divided by the step index).
C9_TimeForecast ==
  (AfterInit /\ step_i >= 1) =>
    LET time_left == Last(step_results_over_time).time_left
    IN /\ time_left = cfg.time_limit - clock
       /\ early_stop_no_time <=>
            \/ time_left <= 0
            \/ 10 * time_left * step_i <= 11 * clock

\* C9 witness: the remaining time equals 1.1 times the average and the
\* signal is raised.
C9_Witness ==
  /\ AfterInit
  /\ step_i >= 1
  /\ cfg.time_limit - clock > 0
  /\ 10 * (cfg.time_limit - clock) * step_i = 11 * clock
  /\ early_stop_no_time

\* record k of the ledger agrees before and after a step, the training loss
\* of the index-0 record aside
SameRecord(a, b, k) ==
  IF k = 1 THEN [ a EXCEPT !.training_loss = 0 ] = [ b EXCEPT !.training_loss = 0 ]
  ELSE a = b

\* C10: from the end of INIT on the ledger is non-empty and append-only:
\* after k steps it holds the records 0..k in order, nothing is removed or
\* reordered, and every started step has its record, the step that raised a
\* stop signal and the skipped steps included.
C10_LedgerAppendOnly ==
  /\ [](AfterInit =>
          /\ Len(step_results_over_time) = step_i + 1
          /\ Len(TrainSteps) = step_i
          /\ \A k \in 1..Len(step_results_over_time) :
               step_results_over_time[k].step_index = k - 1
          /\ \A t \in 1..Len(TrainSteps) :
               TrainSteps[t].step < Len(step_results_over_time))
  /\ [][pc # "start" =>
          /\ Len(step_results_over_time') >= Len(step_results_over_time)
          /\ \A k \in 1..Len(step_results_over_time) :
               SameRecord(step_results_over_time[k],
                          step_results_over_time'[k], k)]_vars

\* C10 witness: a run ended by a stop signal at step 2 or later that holds a
\* skipped step.
C10_Witness ==
  /\ pc = "done"
  /\ (early_stop_no_imp \/ early_stop_no_time)
  /\ step_i >= 2
  /\ SkippedRecords # {}
  /\ Len(step_results_over_time) = step_i + 1

NothingDone ==
  /\ checkpoint = NoFile
  /\ step_results_over_time = << >>
  /\ log = << >>
  /\ step_i = 0

FittedSupplied == val_args.model_for_validation = "fitted"

\* C11 (as stated): a fitted model_for_validation makes the call fail at
\* setup with a configuration error, whatever
\* use_sklearn_interface_for_validation is, before the baseline validation,
\* any checkpoint write, any ledger record and any training step.
C11_Original ==
  (FittedSupplied /\ pc # "start") =>
    /\ pc = "error"
    /\ error = "ValueError"
    /\ NothingDone

\* C11 (amended): a fitted model_for_validation makes the call fail at setup,
\* before anything is validated, written or recorded, when
\* use_sklearn_interface_for_validation is true; when it is false the model
\* is not inspected and the call proceeds to the baseline validation and the
\* first checkpoint write.
C11_FittedRejectedIfUsed ==
  (FittedSupplied /\ pc # "start") =>
    IF val_args.use_sklearn_interface_for_validation
    THEN /\ pc = "error"
         /\ error = "ValueError"
         /\ NothingDone
    ELSE /\ error # "ValueError"
         /\ checkpoint # NoFile
         /\ Len(step_results_over_time) >= 1

\* C11 witness: the call rejected for a fitted model.
C11_Witness ==
  /\ pc = "error"
  /\ error = "ValueError"
  /\ FittedSupplied
  /\ val_args.use_sklearn_interface_for_validation
  /\ NothingDone

\* C12: the final summary reports every termination reason that fired:
\* no-improvement whenever that signal is true (also together with the time
\* signal), no-time whenever the time signal is true, none if neither is.
C12_Original ==
  pc = "done" =>
    /\ (early_stop_no_imp => report.es_reason = "no_imp")
    /\ (early_stop_no_time => report.es_reason = "no_time")
    /\ ((~early_stop_no_imp /\ ~early_stop_no_time) =>
          report.es_reason = "none")

SetMax(S) == CHOOSE x \in S : \A y \in S : y <= x

\* number of steps whose gradients the update of ledger record k was applied
\* to: the steps since the previous step with an update
WindowSize(k) ==
  LET prev == { j \in 2..(k - 1) : step_results_over_time[j].step_with_update }
  IN IF prev = {} THEN k - 1 ELSE k - SetMax(prev)

\* C13: with steps-per-update n > 1 every optimizer update, the first one
\* included, is applied to gradients accumulated over exactly n consecutive
\* steps.
C13_Original ==
  (AfterInit /\ cfg.update_every_n_steps > 1) =>
    \A k \in 2..Len(step_results_over_time) :
      step_results_over_time[k].step_with_update =>
        WindowSize(k) = cfg.update_every_n_steps

\* number of skipped steps among the steps 1..s
SkippedUpTo(s) ==
  Cardinality({ k \in 2..(s + 1) :
                  step_results_over_time[k].optimizer_step_skipped })

\* C14 (as stated): the round numbers passed to successive
\* AdaptiveEarlyStopping.update calls are strictly increasing for every
\* steps-per-update, steps-per-validation and pattern of skipped steps.
C14_Original ==
  AfterInit =>
    \A e \in 2..Len(EsUpdates) :
      EsUpdates[e].round > EsUpdates[e - 1].round

\* C14 (amended): the first call is the baseline one (round 0, is_best); the
\* round of the call at step s is (s - skipped steps) // steps-per-update;
\* the rounds are non-decreasing, and strictly increasing when
\* steps-per-update is 1; with a larger steps-per-update a round number is
\* passed more than once.
C14_RoundsNonDecreasing ==
  AfterInit =>
    /\ EsUpdates[1].step = 0
    /\ EsUpdates[1].round = 0
    /\ EsUpdates[1].flag
    /\ \A e \in 2..Len(EsUpdates) :
         LET s == EsUpdates[e].step
         IN /\ s >= 1
            /\ s > EsUpdates[e - 1].step
            /\ EsUpdates[e].round
                 = (s - SkippedUpTo(s)) \div cfg.update_every_n_steps
            /\ EsUpdates[e].round >= EsUpdates[e - 1].round
            /\ (cfg.update_every_n_steps = 1 =>
                  EsUpdates[e].round > EsUpdates[e - 1].round)

\* C14 witness: steps-per-update 1, validations before and after a skipped
\* step.
C14_Witness ==
  /\ AfterInit
  /\ cfg.update_every_n_steps = 1
  /\ Len(EsUpdates) >= 3
  /\ \E k \in SkippedRecords :
       /\ EsUpdates[2].step < k - 1
       /\ EsUpdates[3].step > k - 1

\* number of non-skipped steps among the steps 1..s
NonSkippedUpTo(s) == s - SkippedUpTo(s)

\* C15 (as stated): the validation cadence counts non-skipped steps only: a
\* validation runs at every steps-per-validation-th non-skipped step, so a
\* skipped step postpones a validation and never cancels it.
C15_Original ==
  AfterInit =>
    \E r \in 0..(cfg.validate_every_n_steps - 1) :
      \A k \in 2..Len(step_results_over_time) :
        Validated(k - 1) <=>
          /\ ~step_results_over_time[k].optimizer_step_skipped
          /\ NonSkippedUpTo(k - 1) % cfg.validate_every_n_steps = r

\* C15 (amended): the validation cadence counts every step: step s validates
\* exactly when (s + 1) mod steps-per-validation = 0 and s was not skipped; a
\* skipped step at a cadence slot cancels that validation, the next one runs
\* at the next cadence slot of the raw step index.
C15_CadenceCountsAllSteps ==
  AfterInit =>
    \A k \in 2..Len(step_results_over_time) :
      Validated(k - 1) <=>
        /\ ~step_results_over_time[k].optimizer_step_skipped
        /\ k % cfg.validate_every_n_steps = 0

\* C15 witness: steps-per-validation 2, step 1 (a cadence slot) skipped,
\* step 2 not validated, step 3 validated.
C15_Witness ==
  /\ AfterInit
  /\ cfg.validate_every_n_steps = 2
  /\ Len(step_results_over_time) >= 4
  /\ step_results_over_time[2].optimizer_step_skipped
  /\ ~step_results_over_time[3].optimizer_step_skipped
  /\ ~Validated(1)
  /\ ~Validated(2)
  /\ Validated(3)

\* C16: the only mutation of an appended record is the backfill at step 1,
\* which sets record 0's training_loss to step 1's training_loss; all other
\* fields of record 0 and all records of index >= 1 stay as appended, and
\* before the first step record 0's training_loss is its initial 0.
C16_OnlyBackfill ==
  /\ []((AfterInit /\ step_i = 0) =>
          step_results_over_time[1].training_loss = 0)
  /\ [][pc # "start" =>
          \A k \in 1..Len(step_results_over_time) :
            IF k = 1
            THEN step_results_over_time'[1] =
                   [ step_results_over_time[1] EXCEPT
                       !.training_loss =
                         IF step_i = 0 /\ step_i' = 1
                         THEN step_results_over_time'[2].training_loss
                         ELSE @ ]
            ELSE step_results_over_time'[k] = step_results_over_time[k]]_vars

\* C16 witness: three records, record 0 holds step 1's training loss and
\* step 2 had a different one.
C16_Witness ==
  /\ Len(step_results_over_time) >= 3
  /\ step_results_over_time[1].training_loss
       = step_results_over_time[2].training_loss
  /\ step_results_over_time[3].training_loss
       # step_results_over_time[2].training_loss

\* C17 (as stated): grad_norm_before_clip is -1 exactly when no optimizer
\* update happened in the step: for record 0, for steps with apply_update
\* false and for steps whose update was skipped.
C17_Original ==
  AfterInit =>
    \A k \in 1..Len(step_results_over_time) :
      LET r == step_results_over_time[k]
      IN (r.grad_norm_before_clip = 0 - 1) <=>
           (k = 1 \/ ~r.step_with_update \/ r.optimizer_step_skipped)

\* C17 (amended): grad_norm_before_clip is -1 exactly when no update was
\* attempted (record 0 and steps with apply_update false); a step whose
\* update was skipped carries the measured, non-finite, pre-clip norm.
C17_SentinelIffNotAttempted ==
  AfterInit =>
    \A k \in 1..Len(step_results_over_time) :
      LET r == step_results_over_time[k]
      IN /\ (r.grad_norm_before_clip = 0 - 1) <=> ~r.step_with_update
         /\ (k = 1 => r.grad_norm_before_clip = 0 - 1)
         /\ (r.step_with_update => r.grad_norm_before_clip >= 0)
         /\ (r.optimizer_step_skipped =>
               r.grad_norm_before_clip = NonFiniteNorm)

\* C17 witness: a ledger with a skipped step, an applied update and a pure
\* accumulation step.
C17_Witness ==
  /\ SkippedRecords # {}
  /\ \E k \in 2..Len(step_results_over_time) :
       /\ step_results_over_time[k].step_with_update
       /\ ~step_results_over_time[k].optimizer_step_skipped
  /\ \E k \in 2..Len(step_results_over_time) :
       ~step_results_over_time[k].step_with_update

\* C18: a step with apply_update false leaves the model parameters, the
\* optimizer state and the scaler unchanged and adds one backward pass to the
\* accumulated gradients; a step with apply_update true ends with the
\* gradients zeroed, applied or skipped.
C18_StepFrame ==
  [][step_i' = step_i + 1 =>
       LET r == Last(step_results_over_time')
       IN /\ (~r.step_with_update =>
                /\ model' = model
                /\ optimizer_state' = optimizer_state
                /\ scaler' = scaler
                /\ grads' = grads + 1)
          /\ (r.step_with_update => grads' = 0)
          /\ ((r.step_with_update /\ r.optimizer_step_skipped) =>
                /\ model' = model
                /\ optimizer_state' = optimizer_state)]_vars

\* C18 witness: an accumulation step followed by a step whose update was
\* skipped, the gradients zeroed.
C18_Witness ==
  /\ Len(step_results_over_time) >= 3
  /\ Last(step_results_over_time).optimizer_step_skipped
  /\ ~step_results_over_time[Len(step_results_over_time) - 1].step_with_update
  /\ grads = 0

\* backward passes since the last step with an update
Accumulated ==
  LET upd == { k \in 2..Len(step_results_over_time) :
                 step_results_over_time[k].step_with_update }
  IN IF upd = {} THEN Len(step_results_over_time) - 1
     ELSE Len(step_results_over_time) - SetMax(upd)

\* C19: every validation, early-stopping update and checkpoint write runs in
\* evaluation mode, every training step in training mode, whatever the
\* previous step did; validations add nothing to the gradients.
C19_Modes ==
  AfterInit =>
    /\ \A e \in 1..Len(log) :
         IF log[e].op = "train" THEN log[e].mode = "train"
         ELSE log[e].mode = "eval"
    /\ model_mode = (IF Validated(step_i) THEN "eval" ELSE "train")
    /\ grads = Accumulated

\* C19 witness: a training step right after a validating step, and a
\* checkpoint write at a step of the loop.
C19_Witness ==
  /\ \E a \in 1..Len(log), b \in 1..Len(log) :
       /\ log[a].op = "validate"
       /\ log[a].step >= 1
       /\ log[b].op = "train"
       /\ log[b].step = log[a].step + 1
  /\ \E c \in 1..Len(log) : log[c].op = "save" /\ log[c].step >= 1

ValidConfig ==
  /\ cfg.update_every_n_steps >= 1
  /\ cfg.min_patience <= cfg.max_patience

\* C20: the loop only runs with steps-per-update >= 1 and
\* min_patience <= max_patience: a configuration violating either is rejected
\* at setup, before the baseline validation, the first checkpoint write and
\* the first step, so nothing is executed for it.
C20_Original ==
  (pc # "start" /\ ~ValidConfig) =>
    /\ pc = "error"
    /\ NothingDone

MinLossUpTo(i) ==
  CHOOSE x \in { step_results_over_time[j].validation_loss : j \in 1..i } :
    \A j \in 1..i : x <= step_results_over_time[j].validation_loss

SavedAt(s) == \E e \in 1..Len(Saves) : Saves[e].step = s

\* C21: in every ledger record i best_validation_loss is the minimum of
\* validation_loss over records 0..i; at the end the reported best loss is
\* the validation_loss of the reported best step, that step is the first
\* record with the minimal validation_loss, and it is record 0 or a
\* validating step at which the checkpoint was written.
C21_BestIsMinimum ==
  /\ AfterInit =>
       \A i \in 1..Len(step_results_over_time) :
         step_results_over_time[i].best_validation_loss = MinLossUpTo(i)
  /\ pc = "done" =>
       LET b == report.best_step + 1
           n == Len(step_results_over_time)
       IN /\ b \in 1..n
          /\ report.best_validation_loss
               = step_results_over_time[b].validation_loss
          /\ step_results_over_time[b].validation_loss = MinLossUpTo(n)
          /\ \A j \in 1..(b - 1) :
               step_results_over_time[j].validation_loss
                 > step_results_over_time[b].validation_loss
          /\ (b = 1 \/ (Validated(b - 1) /\ SavedAt(b - 1)))

\* C21 witness: the report names a step of the loop as best, and a later
\* record carries the same minimal loss.
C21_Witness ==
  /\ pc = "done"
  /\ report.best_step >= 1
  /\ report.best_step + 1 < Len(step_results_over_time)
  /\ Last(step_results_over_time).validation_loss
       = report.best_validation_loss

\* C22: the no-improvement signal is true only after a step that validated:
\* a step without validation leaves it false and never ends the loop for
\* no-improvement, and a run reported as ended for no-improvement has a
\* validating step as its last ledger record.
C22_NoImpOnlyAfterValidation ==
  /\ AfterInit =>
       (early_stop_no_imp => (step_i >= 1 /\ Validated(step_i)))
  /\ (Stopped /\ step_i >= 1 /\ ~Validated(step_i)) =>
       \/ early_stop_no_time
       \/ step_i = data_loader_len(cfg)
  /\ (pc = "done" /\ report.es_reason = "no_imp") =>
       /\ Len(step_results_over_time) >= 2
       /\ Validated(Len(step_results_over_time) - 1)

\* C22 witness: a run reported as ended for no-improvement whose ledger also
\* holds a step without validation.
C22_Witness ==
  /\ pc = "done"
  /\ report.es_reason = "no_imp"
  /\ \E s \in 1..(step_i - 1) : ~Validated(s)

UpdateRecords ==
  { k \in 2..Len(step_results_over_time) :
      step_results_over_time[k].step_with_update }

\* C23: optimizer_step_skipped implies step_with_update in every record, so
\* the skip counter never exceeds the number of update steps, step_i minus
\* the skip counter is never negative, and a step without update validates
\* exactly when the cadence says so.
C23_SkipImpliesUpdate ==
  AfterInit =>
    /\ \A k \in 1..Len(step_results_over_time) :
         step_results_over_time[k].optimizer_step_skipped
           => step_results_over_time[k].step_with_update
    /\ skipped_steps = Cardinality(SkippedRecords)
    /\ skipped_steps <= Cardinality(UpdateRecords)
    /\ step_i - skipped_steps >= 0
    /\ \A k \in 2..Len(step_results_over_time) :
         ~step_results_over_time[k].step_with_update =>
           (Validated(k - 1) <=> k % cfg.validate_every_n_steps = 0)

\* C23 witness: a skipped update and a validating step without update in
\* one run.
C23_Witness ==
  /\ AfterInit
  /\ SkippedRecords # {}
  /\ \E k \in 2..Len(step_results_over_time) :
       /\ ~step_results_over_time[k].step_with_update
       /\ Validated(k - 1)

====
